---- MODULE Spec2Model ----
(***************************************************************************)
(* Pomi, a Pomodoro timer for the Game Boy Advance (src/src/main.cpp).     *)
(*                                                                         *)
(* The model is the main loop of main(): handleInput(ctx), updateTimer(ctx)*)
(* and bn::core::update(), over the PomodoroContext ctx, the hardware      *)
(* timer read by ctx.timer.elapsed_ticks() and the keypad read by          *)
(* bn::keypad::*_pressed().  Rendering does not write ctx and is left out. *)
(***************************************************************************)
EXTENDS Integers, FiniteSets

(***************************************************************************)
(* Program constants.                                                      *)
(***************************************************************************)
\* bn::timers::ticks_per_second(): a constant of the engine; the countdown
\* uses it only as a divisor.  60 is the value of the specification's scenario.
TicksPerSecond == 60

\* PomodoroConfig's member initialisers.
DefaultWorkTime == 25 * 60
DefaultShortBreakTime == 5 * 60
DefaultLongBreakTime == 15 * 60
DefaultSessionsPerSet == 4

\* handleInput: one left/right press changes a duration by a minute, and no
\* duration goes below a minute; the set size changes by one, not below one.
MinuteStep == 60
MinDuration == 60
MinSessions == 1
\* handleInput: the last index of the four configuration items.
LastOption == 3

\* enum class PomodoroState
IDLE == "IDLE"
WORK == "WORK"
SHORT_BREAK == "SHORT_BREAK"
LONG_BREAK == "LONG_BREAK"
CONFIG == "CONFIG"
PomodoroState == {IDLE, WORK, SHORT_BREAK, LONG_BREAK, CONFIG}

\* The buttons of bn::keypad that handleInput reads.
Buttons == {"up", "down", "left", "right", "a", "b", "select"}

(***************************************************************************)
(* Bounds of the exploration.                                              *)
(***************************************************************************)
\* At most this many buttons are newly pressed in one frame.
MaxPressed == 2
\* The configuration is explored up to this many adjustment steps away from
\* the defaults (summed over the four items).
MaxAdjust == 4
\* Over one frame the hardware timer advances by half a second or so, by two
\* seconds, or by a long stall of the host (half an hour, longer than any
\* phase explored).  The shorter advances are explored while the part of the
\* clock above a whole number of stalls is at most MaxFineTicks.
MaxFineTicks == 120
FineDeltas == {30, 40, 120}
StallTicks == 30 * 60 * TicksPerSecond
\* The number of long stalls explored under Spec.
MaxStalls == 1
\* The number of long stalls explored under SpecLongRun, where every frame
\* is a stall and at most one button is pressed per frame.
MaxLongStalls == 30
\* The number of long stalls explored under SpecCountdown before its last
\* countdown, which then runs in frames of CountdownFrameTicks ticks, less
\* than a second each.
MaxCountdownStalls == 15
CountdownFrameTicks == 40

VARIABLES
    ctx,              \* PomodoroContext ctx of main()
    ticks,            \* what ctx.timer.elapsed_ticks() returns now
    keys,             \* the buttons bn::keypad reports as pressed this frame
    elapsedSeconds,   \* updateTimer's local of that name, 0 when not computed
    pc                \* the main loop's position: "input", "timer", "frame"

vars == <<ctx, ticks, keys, elapsedSeconds, pc>>

Abs(x) == IF x < 0 THEN -x ELSE x

(***************************************************************************)
(* PomodoroContext ctx; after main()'s two assignments.                    *)
(***************************************************************************)
InitialContext ==
    [ config |-> [ workTime |-> DefaultWorkTime,
                   shortBreakTime |-> DefaultShortBreakTime,
                   longBreakTime |-> DefaultLongBreakTime,
                   sessionsPerSet |-> DefaultSessionsPerSet ],
      state |-> WORK,
      secondsRemaining |-> DefaultWorkTime,
      completedSessions |-> 0,
      completedSets |-> 0,
      timerActive |-> FALSE,
      configSelection |-> 0,
      lastTicks |-> 0 ]

\* A variant of changeState whose default case sets no time.
changeStateKeepsTime(c, newState) ==
    LET oldState == c.state
        c1 == [c EXCEPT !.state = newState]
        c2 == IF oldState # newState /\ newState # CONFIG
              THEN [c1 EXCEPT !.timerActive = FALSE]
              ELSE c1
    IN  CASE newState = WORK ->
                [c2 EXCEPT !.secondsRemaining = c2.config.workTime]
          [] newState = SHORT_BREAK ->
                [c2 EXCEPT !.secondsRemaining = c2.config.shortBreakTime]
          [] newState = LONG_BREAK ->
                [c2 EXCEPT !.secondsRemaining = c2.config.longBreakTime]
          [] OTHER -> c2

(***************************************************************************)
(* void changeState(PomodoroContext& ctx, PomodoroState newState)          *)
(***************************************************************************)
changeState(c, newState) ==
    LET oldState == c.state
        c1 == [c EXCEPT !.state = newState]
        c2 == IF oldState # newState /\ newState # CONFIG
              THEN [c1 EXCEPT !.timerActive = FALSE]
              ELSE c1
    IN  CASE newState = WORK ->
                [c2 EXCEPT !.secondsRemaining = c2.config.workTime]
          [] newState = SHORT_BREAK ->
                [c2 EXCEPT !.secondsRemaining = c2.config.shortBreakTime]
          [] newState = LONG_BREAK ->
                [c2 EXCEPT !.secondsRemaining = c2.config.longBreakTime]
          [] OTHER ->
                [c2 EXCEPT !.secondsRemaining = c2.config.workTime]

(***************************************************************************)
(* updateTimer: the branch taken when a work session has ended.            *)
(***************************************************************************)
\* A variant that tests for a full set before counting the session.
workSessionEndedTestsFirst(c) ==
    LET c1 == [c EXCEPT !.completedSessions = @ + 1]
    IN  IF c.completedSessions % c.config.sessionsPerSet = 0
        THEN changeState([c1 EXCEPT !.completedSets = @ + 1], LONG_BREAK)
        ELSE changeState(c1, SHORT_BREAK)

\* A variant that counts a set at every session.
workSessionEndedCountsEverySet(c) ==
    LET c1 == [c EXCEPT !.completedSessions = @ + 1, !.completedSets = @ + 1]
    IN  IF c1.completedSessions % c1.config.sessionsPerSet = 0
        THEN changeState(c1, LONG_BREAK)
        ELSE changeState(c1, SHORT_BREAK)

\* A variant that counts the session and stays in the work phase.
workSessionEndedStaysInWork(c) ==
    LET c1 == [c EXCEPT !.completedSessions = @ + 1]
    IN  IF c1.completedSessions % c1.config.sessionsPerSet = 0
        THEN [c1 EXCEPT !.completedSets = @ + 1]
        ELSE c1

workSessionEnded(c) ==
    LET c1 == [c EXCEPT !.completedSessions = @ + 1]
    IN  IF c1.completedSessions % c1.config.sessionsPerSet = 0
        THEN changeState([c1 EXCEPT !.completedSets = @ + 1], LONG_BREAK)
        ELSE changeState(c1, SHORT_BREAK)

(***************************************************************************)
(* updateTimer: the timer has ended (secondsRemaining <= 0).               *)
(***************************************************************************)
\* A variant that forgets "ctx.secondsRemaining = 0".
timerEndedUnclamped(c) ==
    LET c1 == [c EXCEPT !.timerActive = FALSE]
    IN  IF c1.state = WORK
        THEN workSessionEnded(c1)
        ELSE IF c1.state = SHORT_BREAK \/ c1.state = LONG_BREAK
             THEN changeState(c1, WORK)
             ELSE c1

\* A variant that counts a session at the end of every phase.
timerEndedCountsBreaks(c) ==
    LET c1 == [c EXCEPT !.timerActive = FALSE, !.secondsRemaining = 0]
    IN  IF c1.state = WORK
        THEN workSessionEnded(c1)
        ELSE IF c1.state = SHORT_BREAK \/ c1.state = LONG_BREAK
             THEN changeState([c1 EXCEPT !.completedSessions = @ + 1], WORK)
             ELSE c1

\* A variant in which a break is followed by standby.
timerEndedBreakToStandby(c) ==
    LET c1 == [c EXCEPT !.timerActive = FALSE, !.secondsRemaining = 0]
    IN  IF c1.state = WORK
        THEN workSessionEnded(c1)
        ELSE IF c1.state = SHORT_BREAK \/ c1.state = LONG_BREAK
             THEN changeState(c1, IDLE)
             ELSE c1

timerEnded(c) ==
    LET c1 == [c EXCEPT !.timerActive = FALSE, !.secondsRemaining = 0]
    IN  IF c1.state = WORK
        THEN workSessionEnded(c1)
        ELSE IF c1.state = SHORT_BREAK \/ c1.state = LONG_BREAK
             THEN changeState(c1, WORK)
             ELSE c1

\* A variant that only ever counts one second per call.
secondsOfOneAtATime(elapsedTicks) == 1

\* int elapsedSeconds = elapsedTicks / bn::timers::ticks_per_second();
\* elapsedTicks is never negative here: lastTicks is an earlier reading.
secondsOf(elapsedTicks) == elapsedTicks \div TicksPerSecond

(***************************************************************************)
(* void updateTimer(PomodoroContext& ctx), with currentTicks the reading   *)
(* of ctx.timer.elapsed_ticks().                                           *)
(***************************************************************************)
\* A variant without the early return for an inactive timer.
updateTimerWhilePaused(c, currentTicks) ==
    LET elapsedTicks == currentTicks - c.lastTicks
    IN  IF elapsedTicks >= TicksPerSecond
        THEN LET c1 == [c EXCEPT
                          !.secondsRemaining = @ - secondsOf(elapsedTicks),
                          !.lastTicks = currentTicks]
             IN  IF c1.secondsRemaining <= 0 THEN timerEnded(c1) ELSE c1
        ELSE c

\* A variant that moves the tick counter to the current reading in every
\* call, whether or not a second was taken off.
updateTimerReanchorsEveryCall(c, currentTicks) ==
    IF ~c.timerActive
    THEN c
    ELSE LET elapsedTicks == currentTicks - c.lastTicks
         IN  IF elapsedTicks >= TicksPerSecond
             THEN LET c1 == [c EXCEPT
                               !.secondsRemaining = @ - secondsOf(elapsedTicks),
                               !.lastTicks = currentTicks]
                  IN  IF c1.secondsRemaining <= 0 THEN timerEnded(c1) ELSE c1
             ELSE [c EXCEPT !.lastTicks = currentTicks]

updateTimer(c, currentTicks) ==
    IF ~c.timerActive
    THEN c
    ELSE LET elapsedTicks == currentTicks - c.lastTicks
         IN  IF elapsedTicks >= TicksPerSecond
             THEN LET c1 == [c EXCEPT
                               !.secondsRemaining = @ - secondsOf(elapsedTicks),
                               !.lastTicks = currentTicks]
                  IN  IF c1.secondsRemaining <= 0 THEN timerEnded(c1) ELSE c1
             ELSE c

(***************************************************************************)
(* handleInput, configuration mode.                                        *)
(***************************************************************************)
\* A variant of the navigation that stops at the ends instead of wrapping.
navigateConfigNoWrap(c, k) ==
    LET c1 == IF "up" \in k /\ c.configSelection > 0
              THEN [c EXCEPT !.configSelection = @ - 1]
              ELSE c
    IN  IF "down" \in k /\ c1.configSelection < LastOption
        THEN [c1 EXCEPT !.configSelection = @ + 1]
        ELSE c1

\* Navigate configuration options
navigateConfig(c, k) ==
    LET c1 == IF "up" \in k
              THEN IF c.configSelection > 0
                   THEN [c EXCEPT !.configSelection = @ - 1]
                   ELSE [c EXCEPT !.configSelection = LastOption]
              ELSE c
    IN  IF "down" \in k
        THEN IF c1.configSelection < LastOption
             THEN [c1 EXCEPT !.configSelection = @ + 1]
             ELSE [c1 EXCEPT !.configSelection = 0]
        ELSE c1

\* int change
changeOf(k) ==
    IF "right" \in k THEN 1 ELSE IF "left" \in k THEN -1 ELSE 0

\* The value of a duration item after change is applied to it.
adjustedDuration(v, change) ==
    IF v + change * MinuteStep < MinDuration
    THEN MinDuration
    ELSE v + change * MinuteStep

\* A variant without the floor.
adjustedSessionsUnclamped(v, change) == v + change

\* The value of sessionsPerSet after change is applied to it.
adjustedSessions(v, change) ==
    IF v + change < MinSessions THEN MinSessions ELSE v + change

\* Adjust values
adjustConfig(c, k) ==
    LET change == changeOf(k)
    IN  IF change = 0
        THEN c
        ELSE CASE c.configSelection = 0 ->
                    [c EXCEPT !.config.workTime = adjustedDuration(@, change)]
               [] c.configSelection = 1 ->
                    [c EXCEPT !.config.shortBreakTime = adjustedDuration(@, change)]
               [] c.configSelection = 2 ->
                    [c EXCEPT !.config.longBreakTime = adjustedDuration(@, change)]
               [] c.configSelection = 3 ->
                    [c EXCEPT !.config.sessionsPerSet = adjustedSessions(@, change)]
               [] OTHER -> c

\* Exit config mode
exitConfig(c, k) ==
    IF "b" \in k \/ "select" \in k THEN changeState(c, IDLE) ELSE c

(***************************************************************************)
(* handleInput, normal operation mode.                                     *)
(***************************************************************************)
\* A variant that does not reset the tick counter when the timer starts.
toggleTimerKeepsAnchor(c, k, now) ==
    IF "a" \in k THEN [c EXCEPT !.timerActive = ~@] ELSE c

\* A variant in which A starts the timer and never pauses it.
toggleTimerOnlyStarts(c, k, now) ==
    IF "a" \in k
    THEN [c EXCEPT !.timerActive = TRUE, !.lastTicks = now]
    ELSE c

\* A variant in which A in standby begins a work phase.
toggleTimerLeavesStandby(c, k, now) ==
    IF "a" \in k
    THEN LET c1 == IF c.state = IDLE THEN changeState(c, WORK) ELSE c
         IN  IF ~c1.timerActive
             THEN [c1 EXCEPT !.timerActive = TRUE, !.lastTicks = now]
             ELSE [c1 EXCEPT !.timerActive = FALSE]
    ELSE c

\* Toggle timer
toggleTimer(c, k, now) ==
    IF "a" \in k
    THEN LET c1 == [c EXCEPT !.timerActive = ~@]
         IN  IF c1.timerActive THEN [c1 EXCEPT !.lastTicks = now] ELSE c1
    ELSE c

\* A variant in which B returns to standby.
resetTimerToStandby(c, k, now) ==
    IF "b" \in k
    THEN changeState([c EXCEPT !.timerActive = FALSE, !.lastTicks = now], IDLE)
    ELSE c

\* Reset timer
resetTimer(c, k, now) ==
    IF "b" \in k
    THEN LET c1 == [c EXCEPT !.timerActive = FALSE, !.lastTicks = now]
         IN  IF c1.state = WORK
             THEN [c1 EXCEPT !.secondsRemaining = c1.config.workTime]
             ELSE IF c1.state = SHORT_BREAK
             THEN [c1 EXCEPT !.secondsRemaining = c1.config.shortBreakTime]
             ELSE IF c1.state = LONG_BREAK
             THEN [c1 EXCEPT !.secondsRemaining = c1.config.longBreakTime]
             ELSE [c1 EXCEPT !.secondsRemaining = c1.config.workTime]
    ELSE c

\* A variant that leaves the timer's activity to changeState.
enterConfigKeepsRunning(c, k) ==
    IF "select" \in k THEN changeState(c, CONFIG) ELSE c

\* Enter config mode
enterConfig(c, k) ==
    IF "select" \in k
    THEN changeState([c EXCEPT !.timerActive = FALSE], CONFIG)
    ELSE c

(***************************************************************************)
(* void handleInput(PomodoroContext& ctx), with k the buttons the keypad   *)
(* reports as pressed and now the reading of ctx.timer.elapsed_ticks().    *)
(***************************************************************************)
\* A variant whose normal mode handles A after B and Select.
handleInputTogglesLast(c, k, now) ==
    IF c.state = CONFIG
    THEN exitConfig(adjustConfig(navigateConfig(c, k), k), k)
    ELSE toggleTimer(enterConfig(resetTimer(c, k, now), k), k, now)

handleInput(c, k, now) ==
    IF c.state = CONFIG
    THEN exitConfig(adjustConfig(navigateConfig(c, k), k), k)
    ELSE enterConfig(resetTimer(toggleTimer(c, k, now), k, now), k)

(***************************************************************************)
(* The state machine.                                                      *)
(***************************************************************************)
\* How far a configuration is from the defaults, in adjustment steps.
AdjustDistance(cfg) ==
      Abs(cfg.workTime - DefaultWorkTime) \div MinuteStep
    + Abs(cfg.shortBreakTime - DefaultShortBreakTime) \div MinuteStep
    + Abs(cfg.longBreakTime - DefaultLongBreakTime) \div MinuteStep
    + Abs(cfg.sessionsPerSet - DefaultSessionsPerSet)

\* The sets of buttons one frame may report.
Inputs == {k \in SUBSET Buttons : Cardinality(k) <= MaxPressed}

\* The advances of the hardware timer over one frame.
ClockAdvances ==
    {d \in FineDeltas : (ticks % StallTicks) + d <= MaxFineTicks}
    \cup {d \in {StallTicks} : ticks + d <= MaxStalls * StallTicks + MaxFineTicks}

\* The long run: every frame a stall, and one button at most, among those of
\* the normal operation mode (START too, which handleInput does not read) and
\* the two that adjust the selected item.
LongRunButtons == {"a", "b", "start", "select", "left", "right"}
LongRunInputs == {k \in SUBSET LongRunButtons : Cardinality(k) <= 1}
LongRunAdvances == {d \in {StallTicks} : ticks + d <= MaxLongStalls * StallTicks}

\* The countdown run: A or nothing in every frame; long stalls up to
\* MaxCountdownStalls of them, then, while the timer is active, frames
\* shorter than a second until the clock is two more stalls on, which is
\* longer than any phase takes in such frames.
CountdownInputs == {{}, {"a"}}
CountdownClockEnd == (MaxCountdownStalls + 2) * StallTicks
CountdownAdvances ==
    {d \in {StallTicks} : ticks + d <= MaxCountdownStalls * StallTicks}
    \cup {d \in {CountdownFrameTicks} :
            /\ ticks >= MaxCountdownStalls * StallTicks
            /\ ctx.timerActive
            /\ ticks + d <= CountdownClockEnd}

Init ==
    /\ ctx = InitialContext
    /\ ticks = 0
    /\ keys = {}
    /\ elapsedSeconds = 0
    /\ pc = "input"

\* main loop: handleInput(ctx);
HandleInput ==
    /\ pc = "input"
    /\ ctx' = handleInput(ctx, keys, ticks)
    /\ AdjustDistance(ctx'.config) <= MaxAdjust
    /\ pc' = "timer"
    /\ UNCHANGED <<ticks, keys, elapsedSeconds>>

\* main loop: updateTimer(ctx);
UpdateTimer ==
    /\ pc = "timer"
    /\ ctx' = updateTimer(ctx, ticks)
    /\ elapsedSeconds' =
          IF ctx.timerActive /\ ticks - ctx.lastTicks >= TicksPerSecond
          THEN secondsOf(ticks - ctx.lastTicks)
          ELSE 0
    /\ pc' = "frame"
    /\ UNCHANGED <<ticks, keys>>

\* main loop: rendering, then bn::core::update(): the loop waits for the next
\* frame, the hardware timer runs on and the keypad is read anew.
coreUpdate(advances, inputs) ==
    /\ pc = "frame"
    /\ \E d \in advances : ticks' = ticks + d
    /\ \E k \in inputs : keys' = k
    /\ pc' = "input"
    /\ UNCHANGED <<ctx, elapsedSeconds>>

CoreUpdate == coreUpdate(ClockAdvances, Inputs)

CoreUpdateLongRun == coreUpdate(LongRunAdvances, LongRunInputs)

Next == HandleInput \/ UpdateTimer \/ CoreUpdate

NextLongRun == HandleInput \/ UpdateTimer \/ CoreUpdateLongRun

CoreUpdateCountdown == coreUpdate(CountdownAdvances, CountdownInputs)

NextCountdown == HandleInput \/ UpdateTimer \/ CoreUpdateCountdown

\* Every button combination, fine clock advances, a short horizon.
Spec == Init /\ [][Next]_vars

\* One button per frame, every frame a stall, a long horizon.
SpecLongRun == Init /\ [][NextLongRun]_vars

\* The countdown run.  main()'s loop is while(true) and none of its calls
\* blocks, so a frame that can be taken is taken.
SpecCountdown ==
    Init /\ [][NextCountdown]_vars /\ WF_vars(NextCountdown)

(***************************************************************************)
(* Properties.                                                             *)
(***************************************************************************)
\* The gap updateTimer sees between the tick anchor and the hardware timer.
Gap == ticks - ctx.lastTicks

\* updateTimer is about to run with the timer active and the countdown due
\* to reach zero in this call.
CountdownEnds ==
    /\ pc = "timer"
    /\ ctx.timerActive
    /\ Gap >= TicksPerSecond
    /\ Gap \div TicksPerSecond >= ctx.secondsRemaining

\* C1: at the end of every frame (handleInput, then updateTimer) the
\* remaining time is not negative, whatever was pressed and however far the
\* hardware timer advanced.
C1_NeverNegative == pc = "frame" => ctx.secondsRemaining >= 0

\* C1, its case: a frame ends in standby with the countdown at 0 after an
\* update that took off more seconds than a whole work phase has.
C1_Witness ==
    /\ pc = "frame"
    /\ ctx.state = IDLE
    /\ ctx.secondsRemaining = 0
    /\ elapsedSeconds > ctx.config.workTime

\* C2: while the timer keeps running, an update that takes off whole seconds
\* advances the tick anchor by exactly those seconds' ticks, so that the
\* remainder below one second stays credited to the next update.
C2_RemainderCarried ==
    [][(pc = "timer" /\ ctx.timerActive /\ Gap >= TicksPerSecond
            /\ ctx'.timerActive)
        => ctx'.lastTicks
             = ctx.lastTicks + (Gap \div TicksPerSecond) * TicksPerSecond]_vars

\* C3: one call of updateTimer with the timer active takes floor(gap /
\* ticksPerSecond) seconds off the remaining time: none when the gap is below
\* a second, several when it spans several.  When that is the whole of the
\* remaining time or more, the countdown ends instead: the timer stops, and
\* the remaining time is 0 in standby, or a timed phase gives way to the next.
C3_WholeSecondsPerCall ==
    [][(pc = "timer" /\ ctx.timerActive)
        => IF Gap < TicksPerSecond
           THEN ctx'.secondsRemaining = ctx.secondsRemaining
                /\ ctx'.state = ctx.state
           ELSE IF Gap \div TicksPerSecond < ctx.secondsRemaining
           THEN /\ ctx'.secondsRemaining
                     = ctx.secondsRemaining - (Gap \div TicksPerSecond)
                /\ ctx'.state = ctx.state
                /\ ctx'.timerActive
           ELSE /\ ~ctx'.timerActive
                /\ IF ctx.state = IDLE
                   THEN ctx'.state = IDLE /\ ctx'.secondsRemaining = 0
                   ELSE ctx'.state # ctx.state]_vars

\* C3, its case: a single update of a running work phase took two seconds off.
C3_Witness ==
    /\ pc = "frame"
    /\ ctx.state = WORK
    /\ ctx.timerActive
    /\ elapsedSeconds = 2
    /\ ctx.secondsRemaining = ctx.config.workTime - 2

\* C4: ToggleRun (A alone) applied in standby with the timer stopped starts a
\* work phase: the phase becomes WORK, the timer is active, the remaining
\* time is the work time and the tick anchor is the current hardware time.
C4_IdleToggleStartsWork ==
    [][(pc = "input" /\ ctx.state = IDLE /\ ~ctx.timerActive /\ keys = {"a"})
        => /\ ctx'.state = WORK
           /\ ctx'.timerActive
           /\ ctx'.secondsRemaining = ctx'.config.workTime
           /\ ctx'.lastTicks = ticks]_vars

\* C5: with sessionsPerSet = 4, a work phase whose countdown ends counts one
\* more completed session, and gives way to the long break when that count is
\* a multiple of four (the 4th, 8th, ... completion) and to the short break
\* otherwise.
C5_LongBreakEveryFourth ==
    [][(CountdownEnds /\ ctx.state = WORK
            /\ ctx.config.sessionsPerSet = DefaultSessionsPerSet)
        => /\ ctx'.completedSessions = ctx.completedSessions + 1
           /\ ctx'.state = IF ctx'.completedSessions % DefaultSessionsPerSet = 0
                           THEN LONG_BREAK
                           ELSE SHORT_BREAK]_vars

\* C5, its case: the eighth work phase has ended, and the long break follows.
C5_Witness ==
    /\ pc = "frame"
    /\ ctx.completedSessions = 2 * DefaultSessionsPerSet
    /\ ctx.state = LONG_BREAK
    /\ ctx.secondsRemaining = ctx.config.longBreakTime

\* C6: completedSets changes only by one, and exactly in the updates where a
\* work phase ends and brings completedSessions to a multiple of
\* sessionsPerSet; the fourth work phase to end leaves completedSessions = 4,
\* completedSets = 1 and the long break.
C6_SetsCountFullSets ==
    [][/\ (ctx'.completedSets # ctx.completedSets)
            <=> /\ CountdownEnds
                /\ ctx.state = WORK
                /\ (ctx.completedSessions + 1) % ctx.config.sessionsPerSet = 0
       /\ ctx'.completedSets \in {ctx.completedSets, ctx.completedSets + 1}
       /\ (CountdownEnds /\ ctx.state = WORK /\ ctx.completedSessions = 3)
            => /\ ctx'.completedSessions = 4
               /\ ctx'.completedSets = 1
               /\ ctx'.state = LONG_BREAK]_vars

\* C6, its case: four work phases have ended.
C6_Witness ==
    /\ pc = "frame"
    /\ ctx.completedSessions = 4
    /\ ctx.completedSets = 1
    /\ ctx.state = LONG_BREAK

\* The configured duration of a phase; the work time for standby and for the
\* configuration screen.
ConfiguredDuration(cfg, phase) ==
    CASE phase = SHORT_BREAK -> cfg.shortBreakTime
      [] phase = LONG_BREAK -> cfg.longBreakTime
      [] OTHER -> cfg.workTime

\* C7: every change of phase leaves the remaining time at the configured
\* duration of the phase entered.
C7_PhaseEntrySetsDuration ==
    [][ctx'.state # ctx.state
        => ctx'.secondsRemaining = ConfiguredDuration(ctx'.config, ctx'.state)]_vars

\* C7, its case: the configuration screen was left for standby after the
\* work time was edited, and standby shows the edited work time.
C7_Witness ==
    /\ pc = "timer"
    /\ ctx.state = IDLE
    /\ "select" \in keys
    /\ ctx.config.workTime # DefaultWorkTime
    /\ ctx.secondsRemaining = ctx.config.workTime

\* C8: the timer is never active on the configuration screen.
C8_ConfigNotRunning == ctx.state = CONFIG => ~ctx.timerActive

\* C8, its case: A and Select were pressed together; A started the timer at
\* this frame's clock reading and Select entered the configuration screen.
C8_Witness ==
    /\ pc = "frame"
    /\ keys = {"a", "select"}
    /\ ctx.state = CONFIG
    /\ ctx.lastTicks = ticks
    /\ ticks > 0

\* What handleInput's change is for a set of pressed buttons.
RequestedChange ==
    IF "right" \in keys THEN 1 ELSE IF "left" \in keys THEN -1 ELSE 0

\* v moved by d, but not below floor.
Floored(v, d, floor) == IF v + d < floor THEN floor ELSE v + d

\* C9: the durations stay at 60 or more and sessionsPerSet at 1 or more; a
\* frame handled on the configuration screen moves only the item the cursor
\* selects (after the frame's navigation), by 60 for a duration and by 1 for
\* sessionsPerSet, and leaves at its floor an item that would go below it.
C9_ConfigAdjustBounded ==
    [][/\ ctx'.config.workTime >= 60
       /\ ctx'.config.shortBreakTime >= 60
       /\ ctx'.config.longBreakTime >= 60
       /\ ctx'.config.sessionsPerSet >= 1
       /\ (pc = "input" /\ ctx.state = CONFIG)
            => LET sel == ctx'.configSelection
                   old == ctx.config
                   new == ctx'.config
               IN  /\ new.workTime =
                        IF sel = 0
                        THEN Floored(old.workTime, RequestedChange * 60, 60)
                        ELSE old.workTime
                   /\ new.shortBreakTime =
                        IF sel = 1
                        THEN Floored(old.shortBreakTime, RequestedChange * 60, 60)
                        ELSE old.shortBreakTime
                   /\ new.longBreakTime =
                        IF sel = 2
                        THEN Floored(old.longBreakTime, RequestedChange * 60, 60)
                        ELSE old.longBreakTime
                   /\ new.sessionsPerSet =
                        IF sel = 3
                        THEN Floored(old.sessionsPerSet, RequestedChange, 1)
                        ELSE old.sessionsPerSet
       /\ (pc = "input" /\ ctx.state # CONFIG) => ctx'.config = ctx.config
       /\ pc # "input" => ctx'.config = ctx.config]_vars

\* C9, its case: Left is about to be applied on the configuration screen to
\* sessionsPerSet = 1, already at its floor.
C9_Witness ==
    /\ pc = "input"
    /\ ctx.state = CONFIG
    /\ keys = {"left"}
    /\ ctx.configSelection = 3
    /\ ctx.config.sessionsPerSet = 1

\* C10: Select pressed outside the configuration screen enters it with the
\* timer stopped and the cursor on the first item.
C10_EnterConfigResetsCursor ==
    [][(pc = "input" /\ ctx.state # CONFIG /\ "select" \in keys)
        => /\ ctx'.state = CONFIG
           /\ ~ctx'.timerActive
           /\ ctx'.configSelection = 0]_vars

\* The cursor one step up and one step down the four items, circularly.
CursorUp(i) == IF i = 0 THEN 3 ELSE i - 1
CursorDown(i) == IF i = 3 THEN 0 ELSE i + 1

\* C11: configSelection is always one of 0..3; on the configuration screen Up
\* moves it one item up and Down one item down, circularly (up from 0 to 3,
\* down from 3 to 0), Up before Down when both are pressed; nothing else
\* moves it.
C11_CursorCircular ==
    [][/\ ctx'.configSelection \in 0..3
       /\ ctx'.configSelection =
            IF pc = "input" /\ ctx.state = CONFIG
            THEN LET afterUp == IF "up" \in keys
                                THEN CursorUp(ctx.configSelection)
                                ELSE ctx.configSelection
                 IN  IF "down" \in keys THEN CursorDown(afterUp) ELSE afterUp
            ELSE ctx.configSelection]_vars

\* C11, its case: Up alone has just left the cursor on the last item, which
\* it reaches only from the first.
C11_Witness ==
    /\ pc = "timer"
    /\ ctx.state = CONFIG
    /\ keys = {"up"}
    /\ ctx.configSelection = 3

\* A alone is about to be handled outside the configuration screen.
ToggleRunApplied ==
    /\ pc = "input"
    /\ ctx.state # CONFIG
    /\ "a" \in keys
    /\ "b" \notin keys
    /\ "select" \notin keys

\* C12: ToggleRun applied to a paused timer starts it with the tick anchor at
\* the current hardware time and the remaining time as it was; the update of
\* the same frame takes nothing off, and no later update takes anything off
\* before a full second has passed since the anchor.
C12_ResumeCreditsNoPause ==
    [][/\ (ToggleRunApplied /\ ~ctx.timerActive)
            => /\ ctx'.timerActive
               /\ ctx'.lastTicks = ticks
               /\ ctx'.secondsRemaining = ctx.secondsRemaining
               /\ ctx'.state = ctx.state
       /\ (pc = "timer" /\ ctx.timerActive /\ Gap < TicksPerSecond)
            => ctx' = ctx]_vars

\* C12, its case: a work phase that had counted down and was paused is
\* running again at the end of the frame that resumed it, with the anchor at
\* this frame's clock reading and nothing taken off.
C12_Witness ==
    /\ pc = "frame"
    /\ keys = {"a"}
    /\ ctx.state = WORK
    /\ ctx.timerActive
    /\ ctx.lastTicks = ticks
    /\ elapsedSeconds = 0
    /\ ctx.secondsRemaining < ctx.config.workTime

\* C13, as claimed: the timer's activity changes in the steps that handle A
\* outside the configuration screen, and in no other step of a frame in
\* which no other button is pressed.
C13_OnlyToggleChangesRunning ==
    [][keys \subseteq {"a", "start"}
        => ((ctx'.timerActive # ctx.timerActive)
              <=> (pc = "input" /\ ctx.state # CONFIG /\ "a" \in keys))]_vars

\* C13, amended: in a frame in which no button other than A is pressed, A
\* handled outside the configuration screen flips the timer's activity, and
\* the only other change is the countdown reaching 0, which stops the timer.
C13_ToggleOrCountdownEnd ==
    [][keys \subseteq {"a", "start"}
        => IF pc = "input" /\ ctx.state # CONFIG /\ "a" \in keys
           THEN ctx'.timerActive = ~ctx.timerActive
           ELSE (ctx'.timerActive # ctx.timerActive)
                  => (CountdownEnds /\ ~ctx'.timerActive)]_vars

\* C13, its case: A has just paused a work phase that had counted down.
C13_Witness ==
    /\ pc = "timer"
    /\ keys = {"a"}
    /\ ctx.state = WORK
    /\ ~ctx.timerActive
    /\ ctx.secondsRemaining < ctx.config.workTime
    /\ ctx.secondsRemaining > 0

\* C14: updateTimer called with the timer inactive changes nothing of ctx,
\* however far the hardware timer is ahead of the tick anchor.
C14_PausedUpdateIsNoOp ==
    [][(pc = "timer" /\ ~ctx.timerActive) => ctx' = ctx]_vars

\* C14, its case: an update has run with the timer paused and the hardware
\* timer a whole stall ahead of the anchor.
C14_Witness ==
    /\ pc = "frame"
    /\ ~ctx.timerActive
    /\ Gap >= StallTicks
    /\ elapsedSeconds = 0
    /\ ctx.state = WORK
    /\ ctx.secondsRemaining = ctx.config.workTime

\* B is about to be handled outside the configuration screen.
ResetApplied == pc = "input" /\ ctx.state # CONFIG /\ "b" \in keys

\* C15: completedSessions goes up by exactly one in the step that ends a
\* work countdown; in every other step it is unchanged, or not increased if
\* the step handles B outside the configuration screen.
C15_SessionsCountWorkCompletions ==
    [][IF CountdownEnds /\ ctx.state = WORK
       THEN ctx'.completedSessions = ctx.completedSessions + 1
       ELSE \/ ctx'.completedSessions = ctx.completedSessions
            \/ ResetApplied /\ ctx'.completedSessions <= ctx.completedSessions
      ]_vars

\* C15, its case: B has just been handled in a work phase with three
\* sessions already counted.
C15_Witness ==
    /\ pc = "timer"
    /\ keys = {"b"}
    /\ ctx.state = WORK
    /\ ctx.completedSessions = 3

\* C16: Start handled in a work phase with the whole default work time left
\* ends the phase as the countdown reaching 0 does: the session is counted
\* and a break is entered with its full duration.
C16_SkipCompletesWork ==
    [][(/\ pc = "input"
        /\ keys = {"start"}
        /\ ctx.state = WORK
        /\ ctx.secondsRemaining = DefaultWorkTime)
        => /\ ctx'.completedSessions = ctx.completedSessions + 1
           /\ ctx'.state \in {SHORT_BREAK, LONG_BREAK}
           /\ ctx'.secondsRemaining
                = ConfiguredDuration(ctx'.config, ctx'.state)]_vars

\* C17: the buttons of one frame take effect in the order of the code.
\* Outside the configuration screen A, then B, then Select: A with B or
\* Select leaves the timer inactive, and B with Select enters the screen
\* with the tick anchor reset.  On the screen navigation, then adjustment,
\* then exit: Right after Up changes the item moved to, and Right with B or
\* Select, the cursor on the work time once moved, leaves for standby
\* showing the adjusted work time.
C17_ButtonsInFixedOrder ==
    [][pc = "input" =>
        IF ctx.state # CONFIG
        THEN /\ ("a" \in keys /\ ("b" \in keys \/ "select" \in keys))
                  => ~ctx'.timerActive
             /\ ("b" \in keys /\ "select" \in keys)
                  => /\ ctx'.state = CONFIG
                     /\ ctx'.lastTicks = ticks
        ELSE /\ (keys = {"up", "right"} /\ ctx.configSelection = 1)
                  => /\ ctx'.config.workTime = ctx.config.workTime + MinuteStep
                     /\ ctx'.config.shortBreakTime = ctx.config.shortBreakTime
             /\ ("right" \in keys /\ ("b" \in keys \/ "select" \in keys)
                   /\ ctx'.configSelection = 0)
                  => /\ ctx'.state = IDLE
                     /\ ctx'.config.workTime = ctx.config.workTime + MinuteStep
                     /\ ctx'.secondsRemaining = ctx'.config.workTime]_vars

\* C17, its case: A and B were handled together in a work phase after more
\* than a stall of the clock; the timer is inactive and the phase reset.
C17_Witness ==
    /\ pc = "timer"
    /\ keys = {"a", "b"}
    /\ ctx.state = WORK
    /\ ~ctx.timerActive
    /\ ctx.lastTicks = ticks
    /\ ticks > StallTicks
    /\ ctx.secondsRemaining = ctx.config.workTime

\* C18: the step in which a running countdown of a work phase or a break
\* reaches 0 leaves the timer inactive in the following phase (a break after
\* work, work after a break) with that phase's whole duration; the timer
\* becomes active again only by A, and until then no update changes the
\* remaining time.
C18_CompletionPausesInSuccessor ==
    [][/\ (CountdownEnds /\ ctx.state \in {WORK, SHORT_BREAK, LONG_BREAK})
            => /\ ~ctx'.timerActive
               /\ ctx'.state \in (IF ctx.state = WORK
                                  THEN {SHORT_BREAK, LONG_BREAK}
                                  ELSE {WORK})
               /\ ctx'.secondsRemaining
                    = ConfiguredDuration(ctx'.config, ctx'.state)
       /\ (~ctx.timerActive /\ ctx'.timerActive)
            => (pc = "input" /\ "a" \in keys)
       /\ (pc = "timer" /\ ~ctx.timerActive)
            => ctx'.secondsRemaining = ctx.secondsRemaining]_vars

\* C18, its case: a break has just run out and the frame ends in a work
\* phase, inactive, with the whole work time.
C18_Witness ==
    /\ pc = "frame"
    /\ elapsedSeconds > 0
    /\ ctx.state = WORK
    /\ ctx.completedSessions >= 1
    /\ ~ctx.timerActive
    /\ ctx.secondsRemaining = ctx.config.workTime

\* C19: B handled outside the configuration screen, without Select, leaves
\* the phase, both counters, the cursor and the configuration as they were,
\* stops the timer, sets the tick anchor to the current hardware time and
\* the remaining time to the whole duration of the phase (the work time in
\* standby); the update of a frame in which B is pressed changes nothing.
C19_ResetRestartsPhaseInPlace ==
    [][/\ (ResetApplied /\ "select" \notin keys)
            => /\ ctx'.state = ctx.state
               /\ ctx'.completedSessions = ctx.completedSessions
               /\ ctx'.completedSets = ctx.completedSets
               /\ ctx'.configSelection = ctx.configSelection
               /\ ctx'.config = ctx.config
               /\ ~ctx'.timerActive
               /\ ctx'.lastTicks = ticks
               /\ ctx'.secondsRemaining
                    = ConfiguredDuration(ctx.config, ctx.state)
       /\ (pc = "timer" /\ "b" \in keys) => ctx' = ctx]_vars

\* C19, its case: B alone has ended a frame of a short break with the whole
\* break time, the anchor at this frame's clock reading.
C19_Witness ==
    /\ pc = "frame"
    /\ keys = {"b"}
    /\ ctx.state = SHORT_BREAK
    /\ ~ctx.timerActive
    /\ ctx.lastTicks = ticks
    /\ ctx.lastTicks > StallTicks
    /\ ctx.secondsRemaining = ctx.config.shortBreakTime

\* C20: a frame that begins with no button pressed and the timer active in a
\* work phase or a break is followed, the clock advancing every frame, by
\* the end of that phase, unless a button is pressed first.
C20_CountdownCompletes ==
    \A p \in {WORK, SHORT_BREAK, LONG_BREAK} :
        (pc = "input" /\ keys = {} /\ ctx.timerActive /\ ctx.state = p)
            ~> (ctx.state # p \/ keys # {})

\* C20, its case: a long break counted down in frames shorter than a second
\* has just run out into a work phase, no button pressed.
C20_Witness ==
    /\ pc = "frame"
    /\ keys = {}
    /\ ticks > MaxCountdownStalls * StallTicks + DefaultLongBreakTime * TicksPerSecond
    /\ elapsedSeconds = 1
    /\ ctx.state = WORK
    /\ ctx.completedSets = 1
    /\ ~ctx.timerActive

\* C21: standby is entered only from the configuration screen, and from the
\* configuration screen or standby no step leads to any other phase or
\* changes completedSessions or completedSets; a countdown that reaches 0
\* in standby leaves standby with no time remaining and the timer inactive.
C21_ConfigIsAbsorbing ==
    [][/\ (ctx'.state = IDLE /\ ctx.state # IDLE) => ctx.state = CONFIG
       /\ ctx.state \in {CONFIG, IDLE}
            => /\ ctx'.state \in {CONFIG, IDLE}
               /\ ctx'.completedSessions = ctx.completedSessions
               /\ ctx'.completedSets = ctx.completedSets
       /\ (CountdownEnds /\ ctx.state = IDLE)
            => /\ ctx'.state = IDLE
               /\ ctx'.secondsRemaining = 0
               /\ ~ctx'.timerActive]_vars

\* C21, its case: after a counted work session and a visit to the
\* configuration screen, a countdown started in standby has just run out.
C21_Witness ==
    /\ pc = "frame"
    /\ elapsedSeconds > 0
    /\ ctx.state = IDLE
    /\ ctx.completedSessions >= 1
    /\ ctx.secondsRemaining = 0
    /\ ~ctx.timerActive

\* C22: between frames (after updateTimer, before the next handleInput) the
\* remaining time of a work phase or a break is at least 1 and at most the
\* configured duration of the phase; it is 0 only in standby.
C22_TimedPhaseHasTimeLeft ==
    pc \in {"frame", "input"}
        => /\ ctx.state \in {WORK, SHORT_BREAK, LONG_BREAK}
                => /\ 1 <= ctx.secondsRemaining
                   /\ ctx.secondsRemaining
                        <= ConfiguredDuration(ctx.config, ctx.state)
           /\ ctx.secondsRemaining = 0 => ctx.state = IDLE

\* C22, its case: an update has just taken seconds off a running work phase
\* and left it running.
C22_Witness ==
    /\ pc = "frame"
    /\ elapsedSeconds > 0
    /\ ctx.state = WORK
    /\ ctx.timerActive
    /\ ctx.secondsRemaining < ctx.config.workTime

====
